---- MODULE Spec2Model ----
(***************************************************************************)
(* The benchmark-and-select engine of auto_dd: run_dd, parse_speed and     *)
(* benchmark of src/auto_dd.py and src/darthdd_kernel_fix.py.              *)
(*                                                                         *)
(* Text is a sequence of one-character strings, an output file a sequence  *)
(* of lines.  A Python float is held in hundredths (2.00 is 200); the      *)
(* readings of the model carry at most two significant decimals.  Python's *)
(* None is the empty sequence and a present value x is <<x>>.              *)
(***************************************************************************)
EXTENDS Integers, Sequences, FiniteSets, TLC

VARIABLES variant, block_sizes, i, pc, results, best_speed, best_block_size,
          trial, running, outcomes, parse_exc, winner, benchmark_size, main

vars == <<variant, block_sizes, i, pc, results, best_speed, best_block_size,
          trial, running, outcomes, parse_exc, winner, benchmark_size, main>>

\* The number of candidates of the list a run of the model iterates over.
NumCandidates == 3

None == <<>>

Some(x) == <<x>>

(***************************************************************************)
(* Text helpers: str.strip, str.split, the "in" test, int() and float().   *)
(***************************************************************************)
\* \d
DigitChars == {"0", "1", "2", "3", "4", "5", "6", "7", "8", "9"}

\* [\d.]
NumChars == DigitChars \cup {"."}

IsDigit(c) == c \in DigitChars

IsNumCh(c) == c \in NumChars

IsSpace(c) == c \in {" ", "\t", "\r", "\n"}

DigitVal(c) ==
    CASE c = "0" -> 0 [] c = "1" -> 1 [] c = "2" -> 2 [] c = "3" -> 3
      [] c = "4" -> 4 [] c = "5" -> 5 [] c = "6" -> 6 [] c = "7" -> 7
      [] c = "8" -> 8 [] c = "9" -> 9

\* s has the literal lit at position p.
StartsWith(s, p, lit) ==
    /\ p >= 1
    /\ p + Len(lit) - 1 <= Len(s)
    /\ \A k \in 1..Len(lit) : s[p + k - 1] = lit[k]

\* str.strip(): without the leading and trailing whitespace.
Strip(s) ==
    LET keep == {k \in 1..Len(s) : ~IsSpace(s[k])}
    IN  IF keep = {} THEN <<>>
        ELSE SubSeq(s, CHOOSE a \in keep : \A b \in keep : a <= b,
                       CHOOSE a \in keep : \A b \in keep : a >= b)

\* str.split(): the maximal runs of non-whitespace, in order.
RECURSIVE SplitFrom(_, _)
SplitFrom(s, p) ==
    LET starts == {k \in p..Len(s) : ~IsSpace(s[k])}
    IN  IF starts = {} THEN <<>>
        ELSE LET a == CHOOSE x \in starts : \A y \in starts : x <= y
                 ends == {k \in a..Len(s) : k = Len(s) \/ IsSpace(s[k + 1])}
                 b == CHOOSE x \in ends : \A y \in ends : x <= y
             IN  <<SubSeq(s, a, b)>> \o SplitFrom(s, b + 1)

Split(s) == SplitFrom(s, 1)

\* Python's "sub in s" on strings.
Contains(s, sub) == \E p \in 1..Len(s) : StartsWith(s, p, sub)

RECURSIVE IntOf(_)
\* int() of a run of digits.
IntOf(digs) ==
    IF digs = <<>> THEN 0
    ELSE IntOf(SubSeq(digs, 1, Len(digs) - 1)) * 10 + DigitVal(digs[Len(digs)])

\* float() accepts a run of digits and dots when it has one dot at most and a digit.
IsFloat(s) ==
    /\ Len(s) > 0
    /\ \A k \in 1..Len(s) : IsNumCh(s[k])
    /\ Cardinality({k \in 1..Len(s) : s[k] = "."}) <= 1
    /\ \E k \in 1..Len(s) : IsDigit(s[k])

\* float(), in hundredths.
ParseFloat(s) ==
    LET dots == {k \in 1..Len(s) : s[k] = "."}
        d    == IF dots = {} THEN Len(s) + 1 ELSE CHOOSE k \in dots : TRUE
        frac == SubSeq(s \o <<"0", "0", "0">>, d + 1, d + 2)
    IN  IntOf(SubSeq(s, 1, d - 1)) * 100 + IntOf(frac)

(***************************************************************************)
(* re.search(r"(\d+) bytes .* copied, ([\d.]+) s, ([\d.]+ .B/s)", line)    *)
(***************************************************************************)
LitBytes == <<" ", "b", "y", "t", "e", "s", " ">>

LitCopied == <<" ", "c", "o", "p", "i", "e", "d", ",", " ">>

LitS == <<" ", "s", ",", " ">>

LitBps == <<"B", "/", "s">>

LitGB == <<"G", "B">>

\* The end of the greedy run of characters of class cls that starts at p (p - 1: no run).
RunEnd(s, p, cls) ==
    CHOOSE e \in (p - 1)..Len(s) :
        /\ \A k \in p..e : s[k] \in cls
        /\ e = Len(s) \/ s[e + 1] \notin cls

\* "([\d.]+ .B/s)" anchored at q: the end of the match, 0 when there is none.
SpeedEnd(s, q) ==
    LET e == RunEnd(s, q, NumChars)
    IN  IF /\ e >= q
           /\ StartsWith(s, e + 1, <<" ">>)
           /\ e + 2 <= Len(s) /\ s[e + 2] # "\n"
           /\ StartsWith(s, e + 3, LitBps)
        THEN e + 5 ELSE 0

\* "([\d.]+) s, ([\d.]+ .B/s)" anchored at p.
TailMatches(s, p) ==
    LET e == RunEnd(s, p, NumChars)
    IN  e >= p /\ StartsWith(s, e + 1, LitS) /\ SpeedEnd(s, e + 5) > 0

\* The positions of " copied, " that ".*" can stop at, for the "\d+" run ending at j.
CopiedAt(s, j) ==
    {p \in (j + 8)..Len(s) : StartsWith(s, p, LitCopied) /\ TailMatches(s, p + 9)}

\* The whole pattern matches with "(\d+)" starting at a.
MatchesAt(s, a) ==
    /\ IsDigit(s[a])
    /\ LET j == RunEnd(s, a, DigitChars)
       IN  StartsWith(s, j + 1, LitBytes) /\ CopiedAt(s, j) # {}

\* The groups of the match that starts at a, with "\d+" ending at j, " copied, " at p
\* and the seconds ending at e.
Groups(s, a, j, p, e) ==
    [matched |-> TRUE,
     g1 |-> SubSeq(s, a, j),
     g2 |-> SubSeq(s, p + 9, e),
     g3 |-> SubSeq(s, e + 5, SpeedEnd(s, e + 5))]

\* ".*" is greedy: of the positions ps of " copied, " the match takes the last.
GroupsFrom(s, a, j, ps) ==
    Groups(s, a, j, CHOOSE x \in ps : \A y \in ps : x >= y,
           RunEnd(s, (CHOOSE x \in ps : \A y \in ps : x >= y) + 9, NumChars))

\* at: the starts the pattern matches from; the match is the leftmost.
SearchFrom(s, at) ==
    IF at = {} THEN [matched |-> FALSE, g1 |-> <<>>, g2 |-> <<>>, g3 |-> <<>>]
    ELSE GroupsFrom(s, CHOOSE x \in at : \A y \in at : x <= y,
                    RunEnd(s, CHOOSE x \in at : \A y \in at : x <= y, DigitChars),
                    CopiedAt(s, RunEnd(s, CHOOSE x \in at : \A y \in at : x <= y, DigitChars)))

\* re.search(pattern, s)
Search(s) == SearchFrom(s, {a \in 1..Len(s) : MatchesAt(s, a)})

\* The rest of parse_speed, given the match object.
\* raised names the exception that leaves the function, "none" when it returns.
ParseMatch(match) ==
    IF match.matched /\ IsFloat(match.g2)
    THEN [raised |-> "none",
          time_seconds |-> ParseFloat(match.g2),
          speed |-> match.g3,
          bytes_transferred |-> IntOf(match.g1)]
    ELSE [raised |-> "ValueError", time_seconds |-> 0, speed |-> <<>>,
          bytes_transferred |-> 0]

\* parse_speed: the last line of the file (lines[-1]), stripped, searched for the trailer.
parse_speed(lines) ==
    IF lines = <<>>
    THEN [raised |-> "IndexError", time_seconds |-> 0, speed |-> <<>>,
          bytes_transferred |-> 0]
    ELSE ParseMatch(Search(Strip(lines[Len(lines)])))

(***************************************************************************)
(* What dd leaves in the output file when it exits 0.  A reading is the    *)
(* throughput dd printed: its text, its unit prefix and, independently of  *)
(* any parsing, the number the text denotes, in hundredths.                *)
(***************************************************************************)
NL == <<"\n">>

RecordsIn == <<"2", "0", "4", "8", "+", "0", " ", "r", "e", "c", "o", "r", "d", "s", " ", "i", "n">>

RecordsOut == <<"2", "0", "4", "8", "+", "0", " ", "r", "e", "c", "o", "r", "d", "s", " ", "o", "u", "t">>

TxtBytes == <<"1", "0", "7", "3", "7", "4", "1", "8", "2", "4">>

TxtHuman == <<"(", "1", ".", "1", " ", "G", "B", ",", " ", "1", ".", "0", " ", "G", "i", "B", ")">>

TxtTime == <<"2", ".", "0", "0", "0", "0", "0", "0">>

\* Readings in the trailer format: a float, then an optional single-letter prefix, then B/s.
WellFormedReadings ==
    { [text |-> <<"2", ".", "0", "0">>, prefix |-> <<"G">>, hundredths |-> 200],
      [text |-> <<"5", "1", "2", ".", "0", "0">>, prefix |-> <<"M">>, hundredths |-> 51200],
      [text |-> <<"9", "0", "0">>, prefix |-> <<"k">>, hundredths |-> 90000],
      [text |-> <<"0", ".", "0">>, prefix |-> <<"k">>, hundredths |-> 0],
      [text |-> <<"5", "3", "6">>, prefix |-> <<>>, hundredths |-> 53600] }

\* A reading whose number is no float.
MalformedReadings ==
    { [text |-> <<"1", ".", "2", ".", "3">>, prefix |-> <<"M">>, hundredths |-> 0] }

\* "<bytes> bytes (<human>) copied, <seconds> s, <value> <prefix>B/s"
Trailer(r) ==
    TxtBytes \o LitBytes \o TxtHuman \o LitCopied \o TxtTime \o LitS
        \o r.text \o <<" ">> \o r.prefix \o LitBps

Output(r) == <<RecordsIn \o NL, RecordsOut \o NL, Trailer(r) \o NL>>

EmptyOutput == <<>>

\* The trailer cut short inside the seconds field.
TruncatedOutput ==
    <<RecordsIn \o NL, RecordsOut \o NL,
      TxtBytes \o LitBytes \o TxtHuman \o LitCopied \o <<"2", ".", "0">> >>

CompletedOutputs ==
    {EmptyOutput, TruncatedOutput}
        \cup {Output(r) : r \in WellFormedReadings \cup MalformedReadings}

WellFormedOutput(lines) == \E r \in WellFormedReadings : lines = Output(r)

ReadingOf(lines) == CHOOSE r \in WellFormedReadings : lines = Output(r)

(***************************************************************************)
(* format_block_size: the label of a row, <<number, unit>>; the number is  *)
(* in hundredths for KB, MB and GB (rounded to the nearest).               *)
(***************************************************************************)
Fmt2(bs, d) == (bs \div d) * 100 + ((bs % d) * 200 + d) \div (2 * d)

format_block_size(bs) ==
    IF bs >= 1024 * 1024 * 1024 THEN <<Fmt2(bs \div 1024, 1024 * 1024), "GB">>
    ELSE IF bs >= 1024 * 1024 THEN <<Fmt2(bs, 1024 * 1024), "MB">>
    ELSE IF bs >= 1024 THEN <<Fmt2(bs, 1024), "KB">>
    ELSE <<bs, "bytes">>

(***************************************************************************)
(* benchmark: the candidate list, the running maximum and the loop body.   *)
(***************************************************************************)
Variants == {"auto_dd", "darthdd"}

BlockSizes(v) ==
    IF v = "auto_dd"
    THEN <<512, 1024, 2048, 4096, 8192, 16384, 32768, 65536, 131072, 262144, 524288,
           1048576, 2097152, 4194304, 8388608, 16777216, 33554432, 67108864, 10485760>>
    ELSE <<512, 1024, 2048, 4096, 8192, 16384, 32768, 65536, 131072, 262144, 524288,
           1048576, 2097152, 4194304, 8388608, 16777216, 33554432, 67108864>>

\* best_block_size = 32768
DefaultBlockSize == 32768

\* A slip: no default block size.
InitialBest_noDefault == [best_speed |-> 0, best_block_size |-> 0]

\* best_speed = 0; best_block_size = 32768
InitialBest == [best_speed |-> 0, best_block_size |-> DefaultBlockSize]

\* The row of a trial with no result: (format_block_size(bs), None, None, None).
BlankRow(bs) ==
    [block_size |-> format_block_size(bs), data |-> None, time |-> None, speed |-> None]

\* A slip: a failed trial leaves no row.
OnFailure_keepsNoRow(acc, bs) == acc

\* A slip: a failed trial becomes the best block size.
OnFailure_takesBest(acc, bs) ==
    [acc EXCEPT !.results = Append(@, BlankRow(bs)), !.best_block_size = bs]

\* results.append((format_block_size(bs), None, None, None)); continue
OnFailure(acc, bs) == [acc EXCEPT !.results = Append(@, BlankRow(bs))]

\* A slip: except ValueError alone.
CaughtByBenchmark_onlyValueError(exc) == exc = "ValueError"

\* except (ValueError, IndexError)
CaughtByBenchmark(exc) == exc \in {"ValueError", "IndexError"}

\* if "GB" in speed_unit: speed_value *= 1024
Normalize(speed_value, speed_unit) ==
    IF Contains(speed_unit, LitGB) THEN speed_value * 1024 ELSE speed_value

\* if speed_value > best_speed
IsBetter(speed_value, best) == speed_value > best

\* The result of one pass of the loop body: acc holds results, best_speed and
\* best_block_size; exc is what parse_speed raised ("none": nothing), uncaught whether
\* an exception leaves benchmark, norm the speed_value that was compared (None: none).
Blank(acc, bs, exc) ==
    [acc |-> OnFailure(acc, bs), exc |-> exc, uncaught |-> FALSE, norm |-> None]

\* An exception raised inside the try block, by parse_speed (exc) or by the body itself.
Handle(acc, bs, raised, exc) ==
    IF CaughtByBenchmark(raised) THEN Blank(acc, bs, exc)
    ELSE [acc |-> acc, exc |-> exc, uncaught |-> TRUE, norm |-> None]

\* results.append((label, data, time_seconds, speed)); the running maximum.
Compare(acc, bs, p, speed_value) ==
    [acc |-> [results |-> Append(acc.results,
                                 [block_size |-> format_block_size(bs),
                                  data |-> Some(p.bytes_transferred),
                                  time |-> Some(p.time_seconds),
                                  speed |-> Some(p.speed)]),
              best_speed |-> IF IsBetter(speed_value, acc.best_speed)
                             THEN speed_value ELSE acc.best_speed,
              best_block_size |-> IF IsBetter(speed_value, acc.best_speed)
                                  THEN bs ELSE acc.best_block_size],
     exc |-> "none", uncaught |-> FALSE, norm |-> Some(speed_value)]

\* speed_value, speed_unit = speed.split(); speed_value = float(speed_value)
AfterSplit(acc, bs, p, parts) ==
    IF Len(parts) # 2 THEN Handle(acc, bs, "ValueError", "none")
    ELSE IF ~IsFloat(parts[1]) THEN Handle(acc, bs, "ValueError", "none")
    ELSE Compare(acc, bs, p, Normalize(ParseFloat(parts[1]), parts[2]))

\* p is what parse_speed(output_file) gave.
AfterParse(acc, bs, p) ==
    IF p.raised # "none" THEN Handle(acc, bs, p.raised, p.raised)
    ELSE AfterSplit(acc, bs, p, Split(p.speed))

\* The body of "for bs in block_sizes" once run_dd has returned (duration, output_file).
LoopBody(bs, duration, output_file, acc) ==
    IF duration = None THEN Blank(acc, bs, "none")
    ELSE AfterParse(acc, bs, parse_speed(output_file[1]))

(***************************************************************************)
(* run_dd, step by step.  trial is the state of the current call: how often *)
(* the device preparation was invoked and whether it succeeded, whether dd  *)
(* was started, how dd ended, and the pair (duration, output_file) that     *)
(* run_dd returns.  running holds the indices of the trials whose dd        *)
(* process is alive.  benchmark_size is the transfer cap in megabytes that  *)
(* benchmark hands to every run_dd; block_size and count are the bs= and    *)
(* count= operands of the dd command the call builds.                       *)
(***************************************************************************)
IdleTrial ==
    [prep_calls |-> 0, prep_ok |-> TRUE, copy_started |-> FALSE, exit |-> "none",
     duration |-> None, output_file |-> None, block_size |-> 0, count |-> 0]

\* --benchmark-size: type=int, default=512 (auto_dd.py), default=1024 (darthdd_kernel_fix.py).
DefaultBenchmarkSize(v) == IF v = "auto_dd" THEN 512 ELSE 1024

\* The values of --benchmark-size the model runs with, in megabytes.
BenchmarkSizes == {0, 1, 32, 512, 1024}

\* The transfer cap in bytes.
CapBytes(mb) == mb * 1024 * 1024

\* A slip: the division rounded up, so that the last block overshoots the cap.
BlockCount_roundsUp(mb, block_size) ==
    (mb * 1024 * 1024 + block_size - 1) \div block_size

\* count = (benchmark_size * 1024 * 1024) // block_size
BlockCount(mb, block_size) == (mb * 1024 * 1024) \div block_size

\* flush_and_repartition: sgdisk --zap-all, sgdisk --new, partprobe; failed is the
\* command that exits non-zero (0: none does).  False on CalledProcessError.
flush_and_repartition(failed) == failed = 0

\* clear_destination: one dd of zeros; a CalledProcessError is printed, nothing returned.
clear_destination(failed) == None

\* Whether run_dd goes on to the copy once the preparation has returned:
\* auto_dd.py has "if not flush_and_repartition(dest_drive): return None, None",
\* darthdd_kernel_fix.py calls clear_destination(dest_drive) as a statement.
CopyFollowsPrep(v, failed) ==
    IF v = "auto_dd" THEN flush_and_repartition(failed)
    ELSE clear_destination(failed) = None

\* A slip: the timeout is noticed and dd left alive.
KillOnTimeout_leavesRunning(procs, p) == procs

\* subprocess.run(..., timeout=...) on TimeoutExpired: process.kill(), process.wait(), raise.
KillOnTimeout(procs, p) == procs \ {p}

\* The outcome of a trial as the environment decided it, with the reading dd printed
\* and the speed_value benchmark compared (None: it compared none).
Outcome(t, norm) ==
    LET wf == t.exit = "ok" /\ WellFormedOutput(t.output_file[1])
    IN  [kind    |-> IF ~t.copy_started THEN "Failed"
                     ELSE IF t.exit = "timeout" THEN "Timeout"
                     ELSE IF t.exit = "error" THEN "Failed"
                     ELSE IF wf THEN "Success" ELSE "Unparseable",
         prefix  |-> IF wf THEN ReadingOf(t.output_file[1]).prefix ELSE <<"-">>,
         value   |-> IF wf THEN ReadingOf(t.output_file[1]).hundredths ELSE 0,
         norm    |-> norm]

\* main(): where it stands (pc), the parsed arguments, the block size in
\* /usr/local/bin/run_dd.sh once it is written, the state of dd_clone.service,
\* how the script ended if main ran it, and the exit status of the program.
NoService == [created |-> FALSE, enabled |-> FALSE, started |-> FALSE]

\* The argument combinations the model runs main() with.  start_now exists in
\* auto_dd.py only, execute_with_autobench in darthdd_kernel_fix.py only; the runs
\* that go through a benchmark ask for the service to be enabled and started.
MainArgs(v) ==
    {a \in [benchmark : BOOLEAN, start_now : BOOLEAN, execute_with_autobench : BOOLEAN,
            enable_service : BOOLEAN, start_service : BOOLEAN,
            block_size : {DefaultBlockSize, 4096},
            benchmark_size : {DefaultBenchmarkSize(v)}] :
        /\ a.start_now => v = "auto_dd"
        /\ a.execute_with_autobench => v = "darthdd"
        /\ (a.benchmark \/ a.start_now \/ a.execute_with_autobench) =>
               a.enable_service /\ a.start_service}

\* benchmark() called on its own, as the benchmark specifications run it.
BenchmarkAlone(v) ==
    [pc |-> "benchmark",
     args |-> [benchmark |-> TRUE, start_now |-> FALSE, execute_with_autobench |-> FALSE,
               enable_service |-> FALSE, start_service |-> FALSE,
               block_size |-> DefaultBlockSize,
               benchmark_size |-> DefaultBenchmarkSize(v)],
     script |-> None, service |-> NoService, ran |-> "no", exit |-> None]

\* A slip: benchmark's return value is dropped.
AssignWinner_discarded(args, best) == args

\* args.block_size = benchmark(args.source, args.destination, args.benchmark_size)
AssignWinner(args, best) == [args EXCEPT !.block_size = best]

\* The windows of the candidate list the model iterates over.
Windows(v) ==
    {SubSeq(BlockSizes(v), s, s + NumCandidates - 1) :
        s \in {1, 6} \cap (1..(Len(BlockSizes(v)) - NumCandidates + 1))}

Init ==
    /\ variant \in Variants
    /\ block_sizes \in Windows(variant)
    /\ i = 1
    /\ pc = "loop"
    /\ results = <<>>
    /\ best_speed = InitialBest.best_speed
    /\ best_block_size = InitialBest.best_block_size
    /\ trial = IdleTrial
    /\ running = {}
    /\ outcomes = <<>>
    /\ parse_exc = "none"
    /\ winner = None
    /\ benchmark_size = DefaultBenchmarkSize(variant)
    /\ main = BenchmarkAlone(variant)

\* for bs in block_sizes: run_dd(...) is entered and invokes the device preparation.
CallRunDD ==
    /\ pc = "loop"
    /\ i <= Len(block_sizes)
    /\ pc' = "prep"
    /\ trial' = [IdleTrial EXCEPT !.prep_calls = 1,
                                  !.block_size = block_sizes[i],
                                  !.count = BlockCount(benchmark_size, block_sizes[i])]
    /\ UNCHANGED <<variant, block_sizes, i, results, best_speed, best_block_size,
                   running, outcomes, parse_exc, winner, benchmark_size, main>>

\* The preparation returns; run_dd either returns (None, None) or opens the output
\* file and starts dd.
PrepReturns(failed) ==
    /\ pc = "prep"
    /\ failed \in (IF variant = "auto_dd" THEN 0..3 ELSE 0..1)
    /\ IF CopyFollowsPrep(variant, failed)
       THEN /\ pc' = "copy"
            /\ running' = running \cup {i}
            /\ trial' = [trial EXCEPT !.prep_ok = (failed = 0), !.copy_started = TRUE]
       ELSE /\ pc' = "ret"
            /\ running' = running
            /\ trial' = [trial EXCEPT !.prep_ok = (failed = 0)]
    /\ UNCHANGED <<variant, block_sizes, i, results, best_speed, best_block_size,
                   outcomes, parse_exc, winner, benchmark_size, main>>

\* dd exits 0 within the budget: return end_time - start_time, output_file.
CopyExits(lines) ==
    /\ pc = "copy"
    /\ lines \in CompletedOutputs
    /\ pc' = "ret"
    /\ running' = running \ {i}
    /\ trial' = [trial EXCEPT !.exit = "ok", !.duration = Some(1),
                              !.output_file = Some(lines)]
    /\ UNCHANGED <<variant, block_sizes, i, results, best_speed, best_block_size,
                   outcomes, parse_exc, winner, benchmark_size, main>>

\* dd exits non-zero: except subprocess.CalledProcessError: return None, output_file.
CopyFails ==
    /\ pc = "copy"
    /\ pc' = "ret"
    /\ running' = running \ {i}
    /\ trial' = [trial EXCEPT !.exit = "error", !.output_file = Some(EmptyOutput)]
    /\ UNCHANGED <<variant, block_sizes, i, results, best_speed, best_block_size,
                   outcomes, parse_exc, winner, benchmark_size, main>>

\* The wall-clock budget runs out while dd is running.
BudgetExpires ==
    /\ pc = "copy"
    /\ pc' = "expired"
    /\ UNCHANGED <<variant, block_sizes, i, results, best_speed, best_block_size,
                   trial, running, outcomes, parse_exc, winner, benchmark_size, main>>

\* subprocess.run ends dd and raises: except subprocess.TimeoutExpired: return None, output_file.
TimeoutReturns ==
    /\ pc = "expired"
    /\ pc' = "ret"
    /\ running' = KillOnTimeout(running, i)
    /\ trial' = [trial EXCEPT !.exit = "timeout", !.output_file = Some(EmptyOutput)]
    /\ UNCHANGED <<variant, block_sizes, i, results, best_speed, best_block_size,
                   outcomes, parse_exc, winner, benchmark_size, main>>

\* run_dd has returned: the rest of the loop body, then the next candidate.
Record ==
    /\ pc = "ret"
    /\ main.pc # "final_copy"
    /\ \E out \in {LoopBody(block_sizes[i], trial.duration, trial.output_file,
                            [results |-> results, best_speed |-> best_speed,
                             best_block_size |-> best_block_size])} :
           /\ results' = out.acc.results
           /\ best_speed' = out.acc.best_speed
           /\ best_block_size' = out.acc.best_block_size
           /\ parse_exc' = out.exc
           /\ outcomes' = Append(outcomes, Outcome(trial, out.norm))
           /\ IF out.uncaught
              THEN pc' = "crashed" /\ i' = i
              ELSE pc' = "loop" /\ i' = i + 1
    /\ UNCHANGED <<variant, block_sizes, trial, running, winner, benchmark_size, main>>

\* The list is exhausted: the table and the winner are printed, best_block_size returned.
Finish ==
    /\ pc = "loop"
    /\ i > Len(block_sizes)
    /\ pc' = "done"
    /\ winner' = Some(best_block_size)
    /\ UNCHANGED <<variant, block_sizes, i, results, best_speed, best_block_size,
                   trial, running, outcomes, parse_exc, benchmark_size, main>>

Next ==
    \/ CallRunDD
    \/ \E failed \in 0..3 : PrepReturns(failed)
    \/ \E lines \in CompletedOutputs : CopyExits(lines)
    \/ CopyFails
    \/ BudgetExpires
    \/ TimeoutReturns
    \/ Record
    \/ Finish

Spec == Init /\ [][Next]_vars

\* benchmark over one candidate taken anywhere in the list, for every value of
\* --benchmark-size the model runs with: the block counts run_dd computes.
CountInit ==
    /\ variant \in Variants
    /\ block_sizes \in {<<BlockSizes(variant)[k]>> : k \in 1..Len(BlockSizes(variant))}
    /\ i = 1
    /\ pc = "loop"
    /\ results = <<>>
    /\ best_speed = InitialBest.best_speed
    /\ best_block_size = InitialBest.best_block_size
    /\ trial = IdleTrial
    /\ running = {}
    /\ outcomes = <<>>
    /\ parse_exc = "none"
    /\ winner = None
    /\ benchmark_size \in BenchmarkSizes
    /\ main = BenchmarkAlone(variant)

CountSpec == CountInit /\ [][Next]_vars

(***************************************************************************)
(* The claims.                                                             *)
(***************************************************************************)
RowIsBlank(row) == row.data = None /\ row.time = None /\ row.speed = None

\* The trials whose row carries a result: the Success outcomes as benchmark saw them.
Successes == {k \in 1..Len(outcomes) : outcomes[k].norm # None}

NormOf(k) == outcomes[k].norm[1]

\* The Success trials of the highest normalized speed.
Fastest == {k \in Successes : \A j \in Successes : NormOf(k) >= NormOf(j)}

KindsSeen == {outcomes[k].kind : k \in 1..Len(outcomes)}

\* C1: when benchmark has finished, the winner's normalized speed is at least that of
\* every Success trial, and the winner is the earliest-tried of the Success trials of
\* the highest normalized speed.
C1_WinnerIsEarliestFastest ==
    pc = "done" =>
        /\ \A k \in Successes : best_speed >= NormOf(k)
        /\ Successes # {} =>
               \E k \in Fastest :
                   /\ \A j \in Fastest : k <= j
                   /\ winner = Some(block_sizes[k])
                   /\ best_speed = NormOf(k)

\* C2: when benchmark has finished, results holds one row per candidate, the k-th row
\* being the row of the k-th candidate (and the labels of the candidates differ, so no
\* row stands for two of them); while it runs, one row per candidate tried so far.
C2_OneRowPerCandidate ==
    /\ pc # "crashed"
    /\ pc \in {"loop", "done"} => Len(results) = i - 1
    /\ \A k \in 1..Len(results) : results[k].block_size = format_block_size(block_sizes[k])
    /\ \A j, k \in 1..Len(block_sizes) :
           j # k => format_block_size(block_sizes[j]) # format_block_size(block_sizes[k])
    /\ pc = "done" => Len(results) = Len(block_sizes)

C2_Witness ==
    /\ pc = "done"
    /\ Len(results) = Len(block_sizes)
    /\ \E j, k \in 1..Len(results) : RowIsBlank(results[j]) /\ ~RowIsBlank(results[k])

\* run_dd has returned from a trial that ended Timeout, Failed or Unparseable.
ReturnedNonSuccess ==
    pc = "ret" /\ Outcome(trial, None).kind \in {"Timeout", "Failed", "Unparseable"}

\* C3: the step that follows a Timeout, Failed or Unparseable trial appends a blank row,
\* leaves best_speed and best_block_size as they were and moves on to the next
\* candidate; with candidates left the coordinator's only step is the next call of
\* run_dd; benchmark never stops on an exception, and it finishes only when every
\* candidate has been tried.
C3_FailureIsSkipped ==
    /\ [][ReturnedNonSuccess =>
            /\ results' = Append(results, BlankRow(block_sizes[i]))
            /\ best_speed' = best_speed
            /\ best_block_size' = best_block_size
            /\ pc' = "loop"
            /\ i' = i + 1]_vars
    /\ [][(pc = "loop" /\ i <= Len(block_sizes)) => (pc' = "prep" /\ i' = i)]_vars
    /\ [](pc # "crashed")
    /\ [](pc = "done" => Len(outcomes) = Len(block_sizes))

C3_Witness ==
    /\ pc = "done"
    /\ outcomes[1].kind = "Timeout"
    /\ outcomes[2].kind = "Failed"
    /\ outcomes[3].kind = "Unparseable"

\* C4: when benchmark has finished, a winner is defined; when no trial was a Success the
\* winner is the default 32768 and best_speed is 0.
C4_AllFailGivesDefault ==
    /\ pc # "crashed"
    /\ pc = "done" =>
        /\ winner # None
        /\ "Success" \notin KindsSeen =>
               winner = Some(32768) /\ best_speed = 0

C4_Witness ==
    /\ pc = "done"
    /\ KindsSeen = {"Timeout", "Failed", "Unparseable"}
    /\ winner = Some(32768)

\* C5: when benchmark has finished and at least one trial was a Success, the winner is
\* the block size of a Success trial, one of the highest normalized speed.
C5_WinnerIsASuccess ==
    (pc = "done" /\ Successes # {}) =>
        \E k \in Fastest : winner = Some(block_sizes[k])

\* The rate a Success trial's reading denotes, in hundredths of kB/s.
TrueRate(k) ==
    outcomes[k].value *
        (CASE outcomes[k].prefix = <<"k">> -> 1
           [] outcomes[k].prefix = <<"M">> -> 1024
           [] outcomes[k].prefix = <<"G">> -> 1024 * 1024)

\* C6: of two Success trials, the one whose reading denotes the higher rate has the
\* higher normalized speed (a kB/s reading never outranks a smaller MB/s reading).
C6_NormalizationIsMonotonic ==
    \A j, k \in Successes : TrueRate(j) > TrueRate(k) => NormOf(j) > NormOf(k)

C8_NoPrefixIsSuccess ==
    \A k \in 1..Len(outcomes) :
        (outcomes[k].kind = "Success" /\ outcomes[k].prefix = <<>>) =>
            /\ ~RowIsBlank(results[k])
            /\ outcomes[k].norm # None

\* C9: in every trial the preparation is invoked once before the copy; when it fails
\* the copy is not started, the trial's row is blank and no speed of it is compared.
C9_PrepFailureFailsTrial ==
    /\ pc \in {"copy", "expired"} => trial.prep_calls = 1
    /\ ~trial.prep_ok =>
           /\ pc \notin {"copy", "expired"}
           /\ ~trial.copy_started
           /\ (pc \in {"loop", "done"} /\ Len(results) = Len(outcomes)) =>
                  /\ RowIsBlank(results[Len(results)])
                  /\ outcomes[Len(outcomes)].norm = None

\* C10: at most one dd is alive, none while the coordinator runs or a preparation is
\* under way; after a timeout dd is no longer alive when run_dd returns.
C10_TrialsNeverOverlap ==
    /\ Cardinality(running) <= 1
    /\ pc \in {"loop", "prep", "ret", "done", "crashed"} => running = {}
    /\ pc \in {"copy", "expired"} => running = {i}

C10_Witness ==
    /\ pc = "copy"
    /\ i >= 2
    /\ outcomes[i - 1].kind = "Timeout"
    /\ running = {i}

(***************************************************************************)
(* main().                                                                 *)
(***************************************************************************)
MainInit ==
    /\ variant \in Variants
    /\ block_sizes \in Windows(variant)
    /\ i = 1
    /\ pc = "idle"
    /\ results = <<>>
    /\ best_speed = InitialBest.best_speed
    /\ best_block_size = InitialBest.best_block_size
    /\ trial = IdleTrial
    /\ running = {}
    /\ outcomes = <<>>
    /\ parse_exc = "none"
    /\ winner = None
    /\ benchmark_size = DefaultBenchmarkSize(variant)
    /\ main \in {[pc |-> "args", args |-> a, script |-> None, service |-> NoService,
                   ran |-> "no", exit |-> None] : a \in MainArgs(variant)}

\* The variables of benchmark() and run_dd that main's own steps leave alone.
benchvars == <<variant, block_sizes, i, results, best_speed, best_block_size,
               running, outcomes, parse_exc, winner>>

\* darthdd_kernel_fix.py: if args.execute_with_autobench: execute_with_autobench(...),
\* which starts with benchmark(source, dest, 1024).
ExecuteWithAutobench ==
    /\ main.pc = "args"
    /\ main.args.execute_with_autobench
    /\ main' = [main EXCEPT !.pc = "autobench"]
    /\ benchmark_size' = 1024
    /\ pc' = "loop"
    /\ UNCHANGED <<benchvars, trial>>

\* if args.benchmark: benchmark(args.source, args.destination, args.benchmark_size)
CallBenchmark ==
    /\ main.pc = "args"
    /\ ~main.args.execute_with_autobench
    /\ main.args.benchmark
    /\ main' = [main EXCEPT !.pc = "benchmark"]
    /\ benchmark_size' = main.args.benchmark_size
    /\ pc' = "loop"
    /\ UNCHANGED <<benchvars, trial>>

\* --benchmark is not given: args.block_size stays what the command line said.
SkipBenchmark ==
    /\ main.pc = "args"
    /\ ~main.args.execute_with_autobench
    /\ ~main.args.benchmark
    /\ main' = [main EXCEPT !.pc = "script"]
    /\ UNCHANGED <<benchvars, trial, pc, benchmark_size>>

\* benchmark has returned into main: args.block_size = <its return value>.
BenchmarkReturns ==
    /\ main.pc = "benchmark"
    /\ pc = "done"
    /\ main' = [main EXCEPT !.args = AssignWinner(@, winner[1]), !.pc = "script"]
    /\ UNCHANGED <<benchvars, trial, pc, benchmark_size>>

\* execute_with_autobench: best_block_size = benchmark(...), then
\* run_dd(source, dest, best_block_size, 1024) is entered.
AutobenchCopy ==
    /\ main.pc = "autobench"
    /\ pc = "done"
    /\ main' = [main EXCEPT !.pc = "final_copy"]
    /\ pc' = "prep"
    /\ trial' = [IdleTrial EXCEPT !.prep_calls = 1,
                                  !.block_size = winner[1],
                                  !.count = BlockCount(1024, winner[1])]
    /\ UNCHANGED <<benchvars, benchmark_size>>

\* That run_dd has returned, whatever its result: sys.exit(0).
AutobenchExits ==
    /\ main.pc = "final_copy"
    /\ pc = "ret"
    /\ main' = [main EXCEPT !.pc = "exited", !.exit = Some(0)]
    /\ pc' = "done"
    /\ trial' = IdleTrial
    /\ UNCHANGED <<benchvars, benchmark_size>>

\* create_dd_script(args.source, args.destination, args.block_size)
CreateScript ==
    /\ main.pc = "script"
    /\ main' = [main EXCEPT !.script = Some(main.args.block_size),
                            !.pc = IF main.args.start_now THEN "start_now" ELSE "service"]
    /\ UNCHANGED <<benchvars, trial, pc, benchmark_size>>

\* if args.start_now: subprocess.run(["/usr/local/bin/run_dd.sh"], check=True); sys.exit(0).
\* A script that exits non-zero raises CalledProcessError, which nothing catches.
StartNow(ok) ==
    /\ main.pc = "start_now"
    /\ main' = [main EXCEPT !.pc = "exited",
                            !.ran = IF ok THEN "ok" ELSE "failed",
                            !.exit = IF ok THEN Some(0) ELSE Some(1)]
    /\ UNCHANGED <<benchvars, trial, pc, benchmark_size>>

\* create_systemd_service(): the unit file is written, then systemctl daemon-reload
\* runs with check=True.
CreateService(ok) ==
    /\ main.pc = "service"
    /\ main' = [main EXCEPT !.service.created = TRUE,
                            !.pc = IF ok THEN "enable" ELSE "exited",
                            !.exit = IF ok THEN None ELSE Some(1)]
    /\ UNCHANGED <<benchvars, trial, pc, benchmark_size>>

\* if args.enable_service: systemctl enable dd_clone.service (check=True)
EnableService(ok) ==
    /\ main.pc = "enable"
    /\ ok \/ main.args.enable_service
    /\ main' = [main EXCEPT !.service.enabled = main.args.enable_service /\ ok,
                            !.pc = IF ok THEN "start" ELSE "exited",
                            !.exit = IF ok THEN None ELSE Some(1)]
    /\ UNCHANGED <<benchvars, trial, pc, benchmark_size>>

\* if args.start_service: systemctl start dd_clone.service (check=True); main ends.
StartService(ok) ==
    /\ main.pc = "start"
    /\ ok \/ main.args.start_service
    /\ main' = [main EXCEPT !.service.started = main.args.start_service /\ ok,
                            !.pc = "exited",
                            !.exit = IF ok THEN Some(0) ELSE Some(1)]
    /\ UNCHANGED <<benchvars, trial, pc, benchmark_size>>

MainNext ==
    \/ Next
    \/ ExecuteWithAutobench
    \/ CallBenchmark
    \/ SkipBenchmark
    \/ BenchmarkReturns
    \/ AutobenchCopy
    \/ AutobenchExits
    \/ CreateScript
    \/ \E ok \in BOOLEAN : StartNow(ok)
    \/ \E ok \in BOOLEAN : CreateService(ok)
    \/ \E ok \in BOOLEAN : EnableService(ok)
    \/ \E ok \in BOOLEAN : StartService(ok)

MainSpec == MainInit /\ [][MainNext]_vars

\* run_dd has built its dd command.
CommandBuilt == pc \in {"prep", "copy", "expired", "ret"}

\* C11: the count= operand run_dd passes is floor(cap_bytes / block_size): the
\* whole blocks fit under the cap, one block more would not, and the count is 0
\* exactly when the block is larger than the cap.
C11_CountIsFloorOfCap ==
    CommandBuilt =>
        /\ trial.block_size = block_sizes[i]
        /\ trial.block_size > 0
        /\ trial.count >= 0
        /\ trial.count * trial.block_size <= CapBytes(benchmark_size)
        /\ CapBytes(benchmark_size) < (trial.count + 1) * trial.block_size
        /\ (trial.count = 0) <=> (trial.block_size > CapBytes(benchmark_size))

\* dd is running with count=0: the 64M candidate under a cap of 32 MiB.
C11_Witness ==
    /\ pc = "copy"
    /\ benchmark_size = 32
    /\ trial.block_size = 67108864
    /\ trial.count = 0

\* main was told to run the copy itself and exit.
Immediate == main.args.start_now \/ main.args.execute_with_autobench

\* The script is written after benchmark's last candidate and carries the Winner, or
\* the --block-size value without --benchmark; the service comes after the script
\* and not at all with --start-now / --execute-with-autobench.
ScriptAndServiceOrder ==
    /\ (main.script # None /\ main.args.benchmark) =>
           /\ pc = "done"
           /\ Len(outcomes) = Len(block_sizes)
           /\ Len(results) = Len(block_sizes)
           /\ main.script = winner
    /\ (main.script # None /\ ~main.args.benchmark) =>
           /\ main.script = Some(main.args.block_size)
           /\ outcomes = <<>>
    /\ main.service.created => main.script # None
    /\ (main.service.enabled \/ main.service.started) => main.service.created
    /\ Immediate => main.service = NoService

\* C12 as stated: main writes the script after the benchmark has processed every
\* candidate, with the Winner as block size (the --block-size value without
\* --benchmark), creates the service only after the script, and with --start-now or
\* --execute-with-autobench exits 0 without creating, enabling or starting the service.
C12_ImmediateRunExitsZero ==
    /\ ScriptAndServiceOrder
    /\ (Immediate /\ main.pc = "exited") => main.exit = Some(0)

\* C12, amended: the same order of script and service; with --execute-with-autobench
\* the program exits 0, and with --start-now it exits 0 when the script it ran
\* succeeded and 1, by the uncaught CalledProcessError, when the script failed; in
\* neither case is the service created, enabled or started.
C12_ImmediateRunSkipsService ==
    /\ ScriptAndServiceOrder
    /\ (Immediate /\ main.pc = "exited") =>
           /\ main.exit = (IF main.ran = "failed" THEN Some(1) ELSE Some(0))
           /\ main.args.execute_with_autobench => main.exit = Some(0) /\ main.script = None
           /\ main.args.start_now => main.ran # "no" /\ main.script # None

\* --benchmark --start-now --enable-service --start-service --block-size 4096: the
\* benchmark found a winner other than the default, the script carries it, the
\* script failed when main ran it, and no service exists.
C12_Witness ==
    /\ main.pc = "exited"
    /\ main.args.benchmark /\ main.args.start_now
    /\ main.args.enable_service /\ main.args.start_service
    /\ winner # Some(DefaultBlockSize)
    /\ main.script = winner
    /\ main.ran = "failed"
    /\ main.exit = Some(1)
    /\ main.service = NoService
====
